---- MODULE Spec2Model ----
(***************************************************************************)
(* Model of tools/linkedin_export_to_repo.py: the source selector          *)
(* (sniff_posts_csv), the record materializer (main) and the helpers they  *)
(* use (parse_date, slugify, sha1).                                        *)
(*                                                                         *)
(* A Python str is a sequence of characters; a character is a one-letter   *)
(* string, except the three control characters "CR", "LF" and "TAB".       *)
(* Python's None is the value None below.                                  *)
(***************************************************************************)
EXTENDS Integers, Sequences, FiniteSets, TLC

None == <<"<None>">>

\* F(v), with v evaluated once and not at every use of it in F
Eval(v, F(_)) == CHOOSE y \in {F(x) : x \in {v}} : TRUE

\* what str.strip() removes and what the regex class \s matches (ASCII part)
Whitespace == {" ", "TAB", "LF", "CR"}

DigitChars == <<"0","1","2","3","4","5","6","7","8","9">>

Digits == {DigitChars[i] : i \in 1..10}

DigitVal(c) == (CHOOSE i \in 1..10 : DigitChars[i] = c) - 1

UpperChars == <<"A","B","C","D","E","F","G","H","I","J","K","L","M","N","O","P","Q","R","S","T","U","V","W","X","Y","Z">>

LowerChars == <<"a","b","c","d","e","f","g","h","i","j","k","l","m","n","o","p","q","r","s","t","u","v","w","x","y","z">>

UpperSet == {UpperChars[i] : i \in 1..26}

\* str.lower() on one character
LowerChar(c) ==
  IF c \in UpperSet
  THEN LowerChars[CHOOSE i \in 1..26 : UpperChars[i] = c]
  ELSE c

\* str.lower()
lower(s0) == Eval(s0, LAMBDA s : [i \in 1..Len(s) |-> LowerChar(s[i])])

RECURSIVE lstrip(_)
lstrip(s0) ==
  Eval(s0, LAMBDA s : IF s # <<>> /\ Head(s) \in Whitespace THEN lstrip(Tail(s)) ELSE s)

RECURSIVE rstrip(_)
rstrip(s0) ==
  Eval(s0, LAMBDA s : IF s # <<>> /\ s[Len(s)] \in Whitespace
                      THEN rstrip(SubSeq(s, 1, Len(s) - 1))
                      ELSE s)

\* str.strip()
strip(s) == rstrip(lstrip(s))

\* the idiom (x or ""): None and the empty string both give ""
OrEmpty(v) == IF v = None THEN <<>> ELSE v

\* s[:n]
Prefix(s0, n) == Eval(s0, LAMBDA s : SubSeq(s, 1, IF Len(s) < n THEN Len(s) ELSE n))

\* k in name, for strings
Contains(name0, k0) ==
  Eval(<<name0, k0>>, LAMBDA a :
    LET name == a[1]
        k == a[2]
    IN \E i \in 0..(Len(name) - Len(k)) : SubSeq(name, i + 1, i + Len(k)) = k)

RECURSIVE JoinWith(_, _)
\* sep.join(parts)
JoinWith(sep, parts0) ==
  Eval(parts0, LAMBDA parts :
    IF parts = <<>> THEN <<>>
    ELSE IF Len(parts) = 1 THEN parts[1]
    ELSE parts[1] \o sep \o JoinWith(sep, Tail(parts)))

(***************************************************************************)
(* parse_date: datetime.strptime, strftime and the regex fallback.         *)
(***************************************************************************)

\* the five formats of parse_date, in the order of the tuple; "ws" is the
\* \s+ that strptime makes of a blank in the format
DATE_FORMATS ==
  << <<"Y", "-", "m", "-", "d">>,
     <<"d", "/", "m", "/", "Y">>,
     <<"m", "/", "d", "/", "Y">>,
     <<"Y", "-", "m", "-", "d", "ws", "H", ":", "M", ":", "S">>,
     <<"d", "/", "m", "/", "Y", "ws", "H", ":", "M", ":", "S">> >>

IsDigitAt(s, i) == i >= 1 /\ i <= Len(s) /\ s[i] \in Digits

Two(s, i) == 10 * DigitVal(s[i]) + DigitVal(s[i + 1])

\* one alternative of a directive's regex: a one-element list <<end, value>>
\* when it matches at i, the empty list otherwise
Alt2(s, i, ok(_, _)) ==
  IF IsDigitAt(s, i) /\ IsDigitAt(s, i + 1) /\ ok(DigitVal(s[i]), DigitVal(s[i + 1]))
  THEN << <<i + 2, Two(s, i)>> >>
  ELSE <<>>

Alt1(s, i, ok(_)) ==
  IF IsDigitAt(s, i) /\ ok(DigitVal(s[i]))
  THEN << <<i + 1, DigitVal(s[i])>> >>
  ELSE <<>>

\* " [1-9]", the last alternative of %d
AltBlank1(s, i) ==
  IF i + 1 <= Len(s) /\ s[i] = " " /\ IsDigitAt(s, i + 1) /\ DigitVal(s[i + 1]) >= 1
  THEN << <<i + 2, DigitVal(s[i + 1])>> >>
  ELSE <<>>

RECURSIVE WsRun(_, _)
\* number of whitespace characters from position i on
WsRun(s, i) == IF i <= Len(s) /\ s[i] \in Whitespace THEN 1 + WsRun(s, i + 1) ELSE 0

\* the alternatives of one regex token at position i, in the order the regex
\* engine tries them: a list of <<end position, value>>
MatchTok(tok, s, i) ==
  CASE tok = "Y" ->
         IF IsDigitAt(s, i) /\ IsDigitAt(s, i + 1) /\ IsDigitAt(s, i + 2) /\ IsDigitAt(s, i + 3)
         THEN << <<i + 4, 100 * Two(s, i) + Two(s, i + 2)>> >>
         ELSE <<>>
    [] tok = "d" ->
         Alt2(s, i, LAMBDA a, b : a = 3 /\ b <= 1) \o Alt2(s, i, LAMBDA a, b : a \in {1, 2})
           \o Alt2(s, i, LAMBDA a, b : a = 0 /\ b >= 1) \o Alt1(s, i, LAMBDA a : a >= 1)
           \o AltBlank1(s, i)
    [] tok = "m" ->
         Alt2(s, i, LAMBDA a, b : a = 1 /\ b <= 2) \o Alt2(s, i, LAMBDA a, b : a = 0 /\ b >= 1)
           \o Alt1(s, i, LAMBDA a : a >= 1)
    [] tok = "H" ->
         Alt2(s, i, LAMBDA a, b : a = 2 /\ b <= 3) \o Alt2(s, i, LAMBDA a, b : a <= 1)
           \o Alt1(s, i, LAMBDA a : TRUE)
    [] tok = "M" ->
         Alt2(s, i, LAMBDA a, b : a <= 5) \o Alt1(s, i, LAMBDA a : TRUE)
    [] tok = "S" ->
         Alt2(s, i, LAMBDA a, b : a = 6 /\ b <= 1) \o Alt2(s, i, LAMBDA a, b : a <= 5)
           \o Alt1(s, i, LAMBDA a : TRUE)
    [] tok = "ws" ->
         LET n == WsRun(s, i) IN [k \in 1..n |-> <<i + n - k + 1, 0>>]
    [] OTHER ->
         IF i <= Len(s) /\ s[i] = tok THEN << <<i + 1, 0>> >> ELSE <<>>

NoMatch == <<0, <<>>>>

RECURSIVE FirstMatch(_, _, _, _)
RECURSIVE TryAlts(_, _, _, _, _)
\* format_regex.match(data_string): the first match the backtracking engine
\* finds for fmt[k..] from position i, as <<end, values>>, or NoMatch
FirstMatch(fmt, k, s, i) ==
  IF k > Len(fmt) THEN <<i, <<>>>>
  ELSE TryAlts(fmt, k, s, MatchTok(fmt[k], s, i), 1)

TryAlts(fmt, k, s, alts0, n) ==
  Eval(alts0, LAMBDA alts :
    IF n > Len(alts) THEN NoMatch
    ELSE Eval(FirstMatch(fmt, k + 1, s, alts[n][1]), LAMBDA r :
           IF r # NoMatch THEN <<r[1], <<alts[n][2]>> \o r[2]>>
           ELSE TryAlts(fmt, k, s, alts, n + 1)))

IsLeap(y) == (y % 4 = 0 /\ y % 100 # 0) \/ y % 400 = 0

DaysInMonth(y, m) ==
  IF m = 2 THEN (IF IsLeap(y) THEN 29 ELSE 28)
  ELSE IF m \in {4, 6, 9, 11} THEN 30 ELSE 31

ValueError == <<"ValueError">>

\* the value of directive tok in a match of fmt (0 when fmt has no such
\* directive)
Field(fmt, vals, tok) ==
  IF \E k \in 1..Len(fmt) : fmt[k] = tok
  THEN vals[CHOOSE k \in 1..Len(fmt) : fmt[k] = tok]
  ELSE 0

\* datetime.strptime(s, fmt): <<year, month, day>> or ValueError (no match,
\* unconverted data, or a field out of range for datetime)
strptime(s, fmt) ==
  Eval(FirstMatch(fmt, 1, s, 1), LAMBDA r :
    IF r = NoMatch \/ r[1] # Len(s) + 1 THEN ValueError
    ELSE LET y == Field(fmt, r[2], "Y")
             m == Field(fmt, r[2], "m")
             d == Field(fmt, r[2], "d")
             sec == Field(fmt, r[2], "S")
         IN IF y < 1 \/ d > DaysInMonth(y, m) \/ sec > 59 THEN ValueError
            ELSE <<y, m, d>>)

RECURSIVE IntToStr(_)
IntToStr(n) == IF n < 10 THEN <<DigitChars[n + 1]>> ELSE IntToStr(n \div 10) \o <<DigitChars[(n % 10) + 1]>>

RECURSIVE ZeroPad(_, _)
ZeroPad(s, w) == IF Len(s) >= w THEN s ELSE ZeroPad(<<"0">> \o s, w)

\* strftime("%Y-%m-%d"): %m and %d are two digits; %Y is the C library's:
\* four digits where it pads (padYear), the bare number where it does not
\* (glibc prints year 999 as "999")
strftime(ymd, padYear) ==
  (IF padYear THEN ZeroPad(IntToStr(ymd[1]), 4) ELSE IntToStr(ymd[1]))
    \o <<"-">> \o ZeroPad(IntToStr(ymd[2]), 2) \o <<"-">> \o ZeroPad(IntToStr(ymd[3]), 2)

\* re.match(r"^\d{4}-\d{2}-\d{2}", s)
MatchesIsoPrefix(s) ==
  /\ Len(s) >= 10
  /\ \A i \in {1, 2, 3, 4, 6, 7, 9, 10} : s[i] \in Digits
  /\ s[5] = "-" /\ s[8] = "-"

RECURSIVE TryFormats(_, _, _)
\* the for loop of parse_date from format k on: the rendering of the first
\* format strptime accepts, or ValueError when every format raised
TryFormats(s, k, padYear) ==
  IF k > Len(DATE_FORMATS) THEN ValueError
  ELSE Eval(strptime(s, DATE_FORMATS[k]), LAMBDA r :
         IF r # ValueError THEN strftime(r, padYear) ELSE TryFormats(s, k + 1, padYear))

\* parse_date(s); now is datetime.now().strftime("%Y-%m-%d")
parse_date(raw, now, padYear) ==
  Eval(strip(OrEmpty(raw)), LAMBDA s :
    Eval(TryFormats(s, 1, padYear), LAMBDA r :
      IF r # ValueError THEN r
      ELSE IF MatchesIsoPrefix(s) THEN Prefix(s, 10)
      ELSE now))

(***************************************************************************)
(* slugify, sha1 and the file a row becomes.                               *)
(***************************************************************************)

SLUG_LEN == 80

PREVIEW_LEN == 80

DIGEST_LEN == 10

SlugChars == {LowerChars[i] : i \in 1..26} \cup Digits

RECURSIVE SubNonAlnum(_)
\* re.sub(r"[^a-z0-9]+", "-", s): every maximal run of other characters
\* becomes one hyphen
SubNonAlnum(s0) ==
  Eval(s0, LAMBDA s :
    IF s = <<>> THEN <<>>
    ELSE IF Head(s) \in SlugChars THEN <<Head(s)>> \o SubNonAlnum(Tail(s))
    ELSE IF Len(s) >= 2 /\ s[2] \notin SlugChars THEN SubNonAlnum(Tail(s))
    ELSE <<"-">> \o SubNonAlnum(Tail(s)))

RECURSIVE CollapseHyphens(_)
\* re.sub(r"-{2,}", "-", s)
CollapseHyphens(s0) ==
  Eval(s0, LAMBDA s :
    IF s = <<>> THEN <<>>
    ELSE IF Len(s) >= 2 /\ s[1] = "-" /\ s[2] = "-" THEN CollapseHyphens(Tail(s))
    ELSE <<Head(s)>> \o CollapseHyphens(Tail(s)))

RECURSIVE StripHyphens(_)
\* s.strip("-")
StripHyphens(s0) ==
  Eval(s0, LAMBDA s :
    IF s # <<>> /\ Head(s) = "-" THEN StripHyphens(Tail(s))
    ELSE IF s # <<>> /\ s[Len(s)] = "-" THEN StripHyphens(SubSeq(s, 1, Len(s) - 1))
    ELSE s)

slugify(s0) ==
  Eval(StripHyphens(CollapseHyphens(SubNonAlnum(lower(strip(s0))))), LAMBDA s :
    IF s # <<>> THEN Prefix(s, SLUG_LEN) ELSE <<"p","o","s","t">>)

\* str.splitlines()[0] of a non-empty string: up to the first line boundary
FirstLine(s0) ==
  Eval(s0, LAMBDA s :
    IF \E i \in 1..Len(s) : s[i] \in {"LF", "CR"}
    THEN SubSeq(s, 1, (CHOOSE i \in 1..Len(s) : s[i] \in {"LF", "CR"} /\ \A j \in 1..(i - 1) : s[j] \notin {"LF", "CR"}) - 1)
    ELSE s)

\* hashlib.sha1(text.encode("utf-8")).hexdigest() of the texts the model
\* uses, as computed by hashlib
SHA1_TABLE ==
  { <<<<>>, <<"d","a","3","9","a","3","e","e","5","e","6","b","4","b","0","d","3","2","5","5","b","f","e","f","9","5","6","0","1","8","9","0","a","f","d","8","0","7","0","9">>>>,
    <<<<"H","i","!">>, <<"c","0","a","0","a","d","2","6","a","6","3","4","8","4","0","c","6","7","a","2","1","0","f","e","f","d","d","a","7","6","5","7","7","b","0","3","a","1","1","1">>>>,
    <<<<"a","CR","LF","b">>, <<"e","c","6","c","b","5","b","8","c","6","9","f","8","b","4","7","6","a","3","8","0","c","9","b","6","e","3","8","e","1","8","c","2","7","3","3","a","e","7","b">>>> }

sha1(text0) == Eval(text0, LAMBDA text : (CHOOSE p \in SHA1_TABLE : p[1] = text)[2])

\* fname = f"{date}-{slug}-{digest}.md" for a trimmed text and a date
FileName(text, date) ==
  date \o <<"-">> \o slugify(Prefix(FirstLine(text), PREVIEW_LEN)) \o <<"-">>
    \o Prefix(sha1(text), DIGEST_LEN) \o <<".","m","d">>

\* content = "\n".join(lines)
FileContent(text, date, url) ==
  JoinWith(<<"LF">>,
           <<<<"-","-","-">>, <<"d","a","t","e",":"," ">> \o date, <<"p","l","a","t","f","o","r","m",":"," ","l","i","n","k","e","d","i","n">>>>
             \o (IF url # <<>> THEN <<<<"s","o","u","r","c","e",":"," ">> \o url>> ELSE <<>>)
             \o <<<<"-","-","-">>, <<>>, text, <<>>>>)

\* Path.read_text(encoding="utf-8"): text mode reads with universal newlines,
\* so "\r\n" and a lone "\r" come back as "\n": the "\n" after a "\r" is
\* dropped and every "\r" becomes "\n"
ReadText(bytes0) ==
  Eval(bytes0, LAMBDA bytes :
    LET pairs == [i \in 1..Len(bytes) |-> <<IF i > 1 THEN bytes[i - 1] ELSE "", bytes[i]>>]
        kept == SelectSeq(pairs, LAMBDA p : ~(p[1] = "CR" /\ p[2] = "LF"))
    IN [i \in 1..Len(kept) |-> IF kept[i][2] = "CR" THEN "LF" ELSE kept[i][2]])

\* Path.write_text(content, encoding="utf-8") on POSIX: "\n" is written as
\* os.linesep = "\n", every other character unchanged
WriteText(content) == content

(***************************************************************************)
(* The source selector.  A tabular file is a record                        *)
(*   [name, header, rows, readError]:                                      *)
(* its base name, the field names csv.DictReader reads from the first      *)
(* line, the data rows (a row is the list of its cells; a row shorter than *)
(* the header leaves the missing fields None), and whether opening or      *)
(* decoding the file raises while the selector reads it.  A directory tree *)
(* is the list of its files in the order rglob enumerates them; a path is  *)
(* a position in that list.                                                *)
(***************************************************************************)

ALLOWED_FILE_HINTS == <<<<"p","o","s","t","s">>, <<"s","h","a","r","e","s">>, <<"u","p","d","a","t","e","s">>, <<"u","g","c">>, <<"a","r","t","i","c","l","e">>, <<"a","c","t","i","v","i","t","y">>>>

BLOCKED_FILE_HINTS ==
  <<<<"m","e","s","s","a","g","e">>, <<"m","e","s","s","a","g","e","s">>, <<"i","n","m","a","i","l">>, <<"l","e","a","r","n","i","n","g">>, <<"c","o","a","c","h">>, <<"r","o","l","e","_","p","l","a","y">>,
    <<"g","u","i","d","e","_","m","e","s","s","a","g","e","s">>, <<"w","h","a","t","s","a","p","p">>, <<"e","m","a","i","l"," ","a","d","d","r","e","s","s","e","s">>, <<"p","h","o","n","e","n","u","m","b","e","r","s">>>>

TEXT_COL_CANDIDATES ==
  <<<<"c","o","n","t","e","n","t">>, <<"t","e","x","t">>, <<"s","h","a","r","e","c","o","m","m","e","n","t","a","r","y">>, <<"c","o","m","m","e","n","t","a","r","y">>, <<"p","o","s","t">>, <<"b","o","d","y">>,
    <<"a","r","t","i","c","l","e"," ","t","e","x","t">>, <<"a","r","t","i","c","l","e","t","e","x","t">>, <<"u","p","d","a","t","e"," ","t","e","x","t">>, <<"u","p","d","a","t","e","t","e","x","t">>>>

DATE_COL_CANDIDATES == <<<<"d","a","t","e">>, <<"t","i","m","e","s","t","a","m","p">>, <<"t","i","m","e">>, <<"c","r","e","a","t","e","d"," ","a","t">>, <<"c","r","e","a","t","e","d","a","t">>>>

URL_COL_CANDIDATES == <<<<"u","r","l">>, <<"l","i","n","k">>, <<"p","e","r","m","a","l","i","n","k">>>>

SAMPLE_CAP == 3000

AnyHint(name, hints) ==
  Eval(lower(name), LAMBDA lname : \E k \in 1..Len(hints) : Contains(lname, hints[k]))

\* is_blocked_csv as it would be without .lower()
is_blocked_csv_CaseSensitive(name) ==
  \E k \in 1..Len(BLOCKED_FILE_HINTS) : Contains(name, BLOCKED_FILE_HINTS[k])

is_blocked_csv(name) == AnyHint(name, BLOCKED_FILE_HINTS)

is_allowed_csv(name) == AnyHint(name, ALLOWED_FILE_HINTS)

\* the pattern "*.csv" of rglob (case-sensitive on POSIX)
MatchesGlob(name) == Len(name) >= 4 /\ SubSeq(name, Len(name) - 3, Len(name)) = <<".","c","s","v">>

RECURSIVE GlobFrom(_, _)
\* the positions k..Len(tree) whose file name matches the pattern, in order
GlobFrom(tree, k) ==
  IF k > Len(tree) THEN <<>>
  ELSE (IF MatchesGlob(tree[k].name) THEN <<k>> ELSE <<>>) \o GlobFrom(tree, k + 1)

\* list(export_dir.rglob("*.csv"))
rglob(tree) == GlobFrom(tree, 1)

MinOf(S) == CHOOSE x \in S : \A y \in S : x <= y

MaxOf(S) == CHOOSE x \in S : \A y \in S : x >= y

\* headers = {h.strip().lower(): h for h in reader.fieldnames}, as the set
\* of the pairs <<key, position of a field with that key>>; the name kept
\* for a key is the one of the last such field
Headers(header) == {<<lower(strip(header[i])), i>> : i \in 1..Len(header)}

HeaderFor(header, headers, key) ==
  header[MaxOf({h[2] : h \in {g \in headers : g[1] = key}})]

\* next((headers[c] for c in cands if c in headers), None)
ResolveCol(header, cands) ==
  Eval(Headers(header), LAMBDA headers :
    Eval({k \in 1..Len(cands) : \E h \in headers : h[1] = cands[k]}, LAMBDA hits :
      IF hits = {} THEN None ELSE HeaderFor(header, headers, cands[MinOf(hits)])))

\* row.get(col) of the dict DictReader builds: the last field of that name
\* wins, and it is None when the row is too short to have it
RowGet(header, row, col) ==
  LET js == {j \in 1..Len(header) : header[j] = col}
  IN IF js = {} \/ MaxOf(js) > Len(row) THEN None ELSE row[MaxOf(js)]

\* (row.get(text_col) or "").strip()
RowText(header, row, text_col) == strip(OrEmpty(RowGet(header, row, text_col)))

\* the counting loop: rows are read until the file ends or `checked`
\* reaches SAMPLE_CAP
NonEmptySampled(f, text_col) ==
  Cardinality({i \in 1..(IF Len(f.rows) < SAMPLE_CAP THEN Len(f.rows) ELSE SAMPLE_CAP) :
                 RowText(f.header, f.rows[i], text_col) # <<>>})

Score(nonempty, date_col, url_col) ==
  nonempty + (IF date_col # None THEN 10 ELSE 0) + (IF url_col # None THEN 5 ELSE 0)

\* one iteration of the loop over csv_files: the candidate appended for the
\* file at path p, as a list of one tuple, or the empty list when the file
\* is skipped
CandidateOf(tree, p) ==
  Eval(tree[p], LAMBDA f :
    IF is_blocked_csv(f.name) THEN <<>>
    ELSE IF ~is_allowed_csv(f.name) THEN <<>>
    ELSE IF f.readError THEN <<>>
    ELSE IF f.header = <<>> THEN <<>>
    ELSE Eval(<<ResolveCol(f.header, TEXT_COL_CANDIDATES),
                ResolveCol(f.header, DATE_COL_CANDIDATES),
                ResolveCol(f.header, URL_COL_CANDIDATES)>>, LAMBDA cols :
           LET text_col == cols[1]
               date_col == cols[2]
               url_col == cols[3]
           IN IF text_col = None THEN <<>>
              ELSE Eval(NonEmptySampled(f, text_col), LAMBDA nonempty :
                     IF nonempty < 1 THEN <<>>
                     ELSE << <<Score(nonempty, date_col, url_col), p, text_col, date_col, url_col>> >>)))

RECURSIVE Candidates(_, _, _)
Candidates(tree, csv_files, k) ==
  IF k > Len(csv_files) THEN <<>>
  ELSE CandidateOf(tree, csv_files[k]) \o Candidates(tree, csv_files, k + 1)

RECURSIVE InsertDesc_Ascending(_, _)
\* the sort as it would be without reverse=True
InsertDesc_Ascending(sorted0, x) ==
  Eval(sorted0, LAMBDA sorted :
    IF sorted = <<>> THEN <<x>>
    ELSE IF Head(sorted)[1] <= x[1] THEN <<Head(sorted)>> \o InsertDesc_Ascending(Tail(sorted), x)
    ELSE <<x>> \o sorted)

RECURSIVE InsertDesc_LastWins(_, _)
\* the sort as it would be if equal scores were reversed
InsertDesc_LastWins(sorted0, x) ==
  Eval(sorted0, LAMBDA sorted :
    IF sorted = <<>> THEN <<x>>
    ELSE IF Head(sorted)[1] > x[1] THEN <<Head(sorted)>> \o InsertDesc_LastWins(Tail(sorted), x)
    ELSE <<x>> \o sorted)

RECURSIVE InsertDesc(_, _)
\* x goes after every element whose score is at least its own
InsertDesc(sorted0, x) ==
  Eval(sorted0, LAMBDA sorted :
    IF sorted = <<>> THEN <<x>>
    ELSE IF Head(sorted)[1] >= x[1] THEN <<Head(sorted)>> \o InsertDesc(Tail(sorted), x)
    ELSE <<x>> \o sorted)

RECURSIVE SortByScoreDesc(_, _)
\* candidates.sort(key=lambda x: x[0], reverse=True): list.sort is stable,
\* also with reverse=True, so equal scores keep their order
SortByScoreDesc(cands, k) ==
  IF k = 0 THEN <<>> ELSE InsertDesc(SortByScoreDesc(cands, k - 1), cands[k])

NotFound == [error |-> "FileNotFoundError", path |-> 0, text_col |-> None, date_col |-> None, url_col |-> None]

\* sniff_posts_csv(export_dir)
sniff_posts_csv(tree) ==
  Eval(rglob(tree), LAMBDA csv_files :
    IF csv_files = <<>> THEN NotFound
    ELSE Eval(Candidates(tree, csv_files, 1), LAMBDA candidates :
           IF candidates = <<>> THEN NotFound
           ELSE Eval(SortByScoreDesc(candidates, Len(candidates))[1], LAMBDA best :
                  [error |-> "", path |-> best[2], text_col |-> best[3],
                   date_col |-> best[4], url_col |-> best[5]])))

(***************************************************************************)
(* State.                                                                  *)
(***************************************************************************)

VARIABLES
  env,        \* the value of LINKEDIN_EXPORT_DIR: None when unset, else a string
  fs,         \* the directories that exist: path |-> tree
  today,      \* what datetime.now().strftime("%Y-%m-%d") gives
  padYear,    \* whether the platform's strftime pads %Y to four digits
  outExists,  \* whether OUT_DIR exists
  outFiles,   \* the files of OUT_DIR: name |-> what is stored on disk
  pc,         \* where main() is
  err,        \* the exception main() ended with, "" for none
  sel,        \* what sniff_posts_csv returned
  rowIdx,     \* the next row of the selected source, counted from 1
  created,
  updated,
  writes,     \* write_text calls of this run
  reads,      \* read_text calls of this run
  scanned,    \* whether this run enumerated the export directory
  gitLog,     \* the git commands this run invoked, with their outcomes
  last,       \* what the loop body did with the row it handled last
  run,        \* the number of the run of main()
  outBefore,  \* outExists and outFiles when this run started
  prevOk,     \* whether the previous run ended normally
  touched,    \* what was changed since the previous run ended
  edited,     \* the row whose URL was changed, and its previous cells
  dIn,        \* parse_date: the argument
  dOut,       \* parse_date: the result
  sTree,      \* sniff_posts_csv: the export directory
  sOut        \* sniff_posts_csv: the result

vars ==
  <<env, fs, today, padYear, outExists, outFiles, pc, err, sel, rowIdx, created, updated,
    writes, reads, scanned, gitLog, last, run, outBefore, prevOk, touched, edited,
    dIn, dOut, sTree, sOut>>

mainVars ==
  <<env, fs, outExists, outFiles, pc, err, sel, rowIdx, created, updated,
    writes, reads, scanned, gitLog, last, run, outBefore, prevOk, touched, edited>>

Pending == <<"<pending>">>

NoRow == [idx |-> 0, did |-> "", fname |-> <<>>]

NoEdit == [idx |-> 0, old |-> <<>>]

SeqsUpTo(S, n) == UNION {[1..k -> S] : k \in 0..n}

(***************************************************************************)
(* Bounds and the inputs drawn within them.                                *)
(***************************************************************************)

\* rows of a source that main() converts
MaxRows == 2

\* runs of main() in a row
MaxRuns == 2

\* files of an export directory given to sniff_posts_csv
MaxFiles == 2

\* rows of a file given to sniff_posts_csv (the files longer than
\* SAMPLE_CAP are listed apart)
MaxSniffRows == 2

H_FULL == <<<<"D","a","t","e">>, <<"S","h","a","r","e","C","o","m","m","e","n","t","a","r","y">>, <<"U","r","l">>>>

H_TEXT == <<<<" ","T","e","x","t"," ">>>>

H_OTHER == <<<<"D","a","t","e">>, <<"S","u","b","j","e","c","t">>, <<"M","e","s","s","a","g","e">>>>

TODAY == <<"2","0","2","6","-","1","1","-","0","5">>

TOMORROW == <<"2","0","2","6","-","1","1","-","0","6">>

CWD == <<".">>

EXPORT_PATH == <<"/","e","x","p","o","r","t">>

MISSING_PATH == <<"/","n","o","p","e">>

\* what an edit of the source may put in a URL cell
NewUrlCells == {<<"u">>, <<"v">>, <<" ","u"," ">>, <<>>}

DateCells == {<<"0","5","/","0","3","/","2","0","2","4">>, <<"n","/","a">>}

UrlCells == {<<"u">>, <<>>}

\* rows under H_FULL: a text with every date and URL (so two rows can have
\* one file name and two URLs), a text with a line break, and the rows
\* without a text (field absent, empty, white space only)
MainRowsFull ==
  {<<d, <<" ","H","i","!"," ">>, u>> : d \in DateCells, u \in UrlCells}
    \cup {<<<<"n","/","a">>, <<"a","CR","LF","b">>, u>> : u \in UrlCells}
    \cup {<<<<"0","5","/","0","3","/","2","0","2","4">>>>, <<<<"0","5","/","0","3","/","2","0","2","4">>, <<>>, <<"u">>>>, <<<<"0","5","/","0","3","/","2","0","2","4">>, <<" ","TAB">>, <<"u">>>>}

MainRowsText == {<<<<" ","H","i","!"," ">>>>, << <<>> >>}

MainSources ==
  {[name |-> <<"S","h","a","r","e","s",".","c","s","v">>, header |-> H_FULL, rows |-> r, readError |-> FALSE] :
     r \in SeqsUpTo(MainRowsFull, MaxRows)}
    \cup {[name |-> <<"S","h","a","r","e","s",".","c","s","v">>, header |-> H_TEXT, rows |-> r, readError |-> FALSE] :
            r \in SeqsUpTo(MainRowsText, MaxRows)}

EmptyDir == [n \in {} |-> <<>>]

\* an output directory left by earlier imports: a file under the name the
\* text "Hi!" of 2024-03-05 gets, with other content, and a foreign file
UsedDir ==
  (FileName(<<"H","i","!">>, <<"2","0","2","4","-","0","3","-","0","5">>) :> <<"s","t","a","l","e">>) @@ (<<"R","E","A","D","M","E",".","m","d">> :> <<"#"," ","p","o","s","t","s">>)

OutDirs == {<<FALSE, EmptyDir>>, <<TRUE, UsedDir>>}

\* sniff_posts_csv: names, contents, files and directories
OtherNames == {<<"I","n","M","a","i","l","_","P","o","s","t","s",".","c","s","v">>, <<"m","e","s","s","a","g","e","s",".","c","s","v">>, <<"P","r","o","f","i","l","e",".","c","s","v">>, <<"u","g","c",".","t","x","t">>}

TextRowFor(header, t) ==
  IF header = H_TEXT THEN <<t>> ELSE <<<<"2","0","2","4","-","0","3","-","0","5">>, t, <<"u">>>>

\* under H_FULL, every list of up to MaxSniffRows rows with and without
\* text; under H_TEXT, the lists of rows with text
SniffRowSets(header) ==
  {[i \in 1..Len(p) |-> TextRowFor(header, p[i])] :
     p \in SeqsUpTo(IF header = H_TEXT THEN {<<"x">>} ELSE {<<"x">>, <<" ">>}, MaxSniffRows)}

BestContent ==
  [header |-> H_FULL, rows |-> [i \in 1..MaxSniffRows |-> TextRowFor(H_FULL, <<"x">>)], readError |-> FALSE]

SniffContents ==
  {[header |-> h, rows |-> r, readError |-> FALSE] : h \in {H_FULL}, r \in SniffRowSets(H_FULL)}
    \cup {[header |-> h, rows |-> r, readError |-> FALSE] : h \in {H_TEXT}, r \in SniffRowSets(H_TEXT)}
    \cup {[header |-> H_OTHER, rows |-> <<<<<<"2","0","2","4","-","0","3","-","0","5">>, <<"x">>, <<"x">>>>>>, readError |-> FALSE],
          [header |-> <<>>, rows |-> <<>>, readError |-> FALSE],
          [BestContent EXCEPT !.readError = TRUE]}

WithName(n, c) == [name |-> n, header |-> c.header, rows |-> c.rows, readError |-> c.readError]

ShortFiles ==
  {WithName(<<"S","h","a","r","e","s",".","c","s","v">>, c) : c \in SniffContents}
    \cup {WithName(n, BestContent) : n \in OtherNames}

\* files longer than the sample: one text in the sample and two after it,
\* and no text in the sample and one after it
LongFiles ==
  {[name |-> <<"A","r","t","i","c","l","e","s",".","c","s","v">>, header |-> H_TEXT, readError |-> FALSE,
    rows |-> [i \in 1..(SAMPLE_CAP + 2) |-> IF i = 1 \/ i > SAMPLE_CAP THEN <<<<"x">>>> ELSE << <<>> >>]],
   [name |-> <<"A","r","t","i","c","l","e","s",".","c","s","v">>, header |-> H_TEXT, readError |-> FALSE,
    rows |-> [i \in 1..(SAMPLE_CAP + 1) |-> IF i > SAMPLE_CAP THEN <<<<"x">>>> ELSE << <<>> >>]]}

\* the directories of up to MaxFiles short files, and a long file alone,
\* before and after each other file
SniffDirs ==
  SeqsUpTo(ShortFiles, MaxFiles)
    \cup {<<l>> : l \in LongFiles}
    \cup {<<l, f>> : l \in LongFiles, f \in ShortFiles \cup LongFiles}
    \cup {<<f, l>> : l \in LongFiles, f \in ShortFiles}

DateParts(Ds, Ms, Ys) ==
  {d \o <<"/">> \o m \o <<"/">> \o y : d \in Ds, m \in Ms, y \in Ys}
    \cup {y \o <<"-">> \o m \o <<"-">> \o d : d \in Ds, m \in Ms, y \in Ys}

DateInputs ==
  DateParts({<<"0","5">>, <<"5">>, <<"1","3">>, <<"3","1">>}, {<<"0","3">>, <<"2">>, <<"1","3">>}, {<<"2","0","2","4">>, <<"0","9","9","9">>})
    \cup {s \o t : s \in {<<"2","0","2","4","-","0","3","-","0","5">>, <<"0","5","/","0","3","/","2","0","2","4">>}, t \in {<<" ","1","0",":","0","0",":","0","0">>, <<" ","1",":","2",":","3">>, <<"T","1","0",":","0","0">>, <<" ","1","0",":","0","0",":","6","0">>, <<" ">>}}
    \cup {None, <<>>, <<"n","o","t","-","a","-","d","a","t","e">>, <<"2","0","2","4","-","1","3","-","4","5","x","y","z">>, <<"0","0","0","0","-","0","1","-","0","1">>, <<"2","9","/","0","2","/","2","0","2","3">>, <<"0","2","/","2","9","/","2","0","2","4">>}

(***************************************************************************)
(* Initial states.                                                         *)
(***************************************************************************)

IdleDate == dIn = None /\ dOut = Pending

SniffPending == [error |-> "<pending>", path |-> 0, text_col |-> None, date_col |-> None, url_col |-> None]

IdleSniff == sTree = <<>> /\ sOut = SniffPending

IdleMain ==
  /\ env = None /\ fs = (CWD :> <<>>)
  /\ outExists = FALSE /\ outFiles = EmptyDir
  /\ pc = "off" /\ err = "" /\ sel = NotFound /\ rowIdx = 0
  /\ created = 0 /\ updated = 0 /\ writes = 0 /\ reads = 0
  /\ scanned = FALSE /\ gitLog = <<>> /\ last = NoRow
  /\ run = 0 /\ outBefore = <<FALSE, EmptyDir>> /\ prevOk = FALSE
  /\ touched = {} /\ edited = NoEdit

\* The state before the first run of main().  The working directory always
\* exists; the configured directory is set and present with one source in
\* it, or it is unset, empty or absent.  The sources' dates lie after the
\* year 999, so padYear makes no difference to a run.
Init ==
  /\ \/ /\ env = EXPORT_PATH
        /\ \E src \in MainSources : fs = (CWD :> <<>>) @@ (EXPORT_PATH :> <<src>>)
     \/ /\ env \in {None, <<>>, MISSING_PATH}
        /\ \E cwd \in {<<>>, <<[name |-> <<"S","h","a","r","e","s",".","c","s","v">>, header |-> H_TEXT, rows |-> <<<<<<" ","H","i","!"," ">>>>>>, readError |-> FALSE]>>} :
             fs = (CWD :> cwd) @@ (EXPORT_PATH :> <<>>)
  /\ \E o \in OutDirs : outExists = o[1] /\ outFiles = o[2] /\ outBefore = o
  /\ today = TODAY /\ padYear = FALSE
  /\ pc = "start" /\ err = "" /\ sel = NotFound /\ rowIdx = 0
  /\ created = 0 /\ updated = 0 /\ writes = 0 /\ reads = 0
  /\ scanned = FALSE /\ gitLog = <<>> /\ last = NoRow
  /\ run = 1 /\ prevOk = FALSE /\ touched = {} /\ edited = NoEdit
  /\ IdleDate /\ IdleSniff

InitDate ==
  /\ dIn \in DateInputs /\ dOut = Pending
  /\ today = TODAY /\ padYear \in BOOLEAN
  /\ IdleMain /\ IdleSniff

InitSniff ==
  /\ sTree \in SniffDirs /\ sOut = SniffPending
  /\ today = TODAY /\ padYear = FALSE
  /\ IdleMain /\ IdleDate

(***************************************************************************)
(* main().                                                                 *)
(***************************************************************************)

\* EXPORT_DIR = Path(os.environ.get("LINKEDIN_EXPORT_DIR", "")).expanduser():
\* Path("") is the path ".", the working directory
EXPORT_DIR(e) == IF OrEmpty(e) = <<>> THEN CWD ELSE e

\* not EXPORT_DIR: a Path has neither __bool__ nor __len__, so it is never
\* false
PathIsFalse(p) == FALSE

PathExists(p) == p \in DOMAIN fs

\* the file main() reads and the row the loop is at
Source == fs[EXPORT_DIR(env)][sel.path]

RowDate(f, row) ==
  parse_date(IF sel.date_col # None THEN RowGet(f.header, row, sel.date_col) ELSE <<>>, today, padYear)

RowUrl(f, row) ==
  IF sel.url_col # None THEN strip(OrEmpty(RowGet(f.header, row, sel.url_col))) ELSE <<>>

\* the loop as it would be without the test of the text
SkipRow_Never(text) == FALSE

\* if not text: continue
SkipRow(text) == text = <<>>

\* the comparison as it would be if an existing file were never rewritten
SameContent_Always(old, content) == TRUE

\* if old == content: continue
SameContent(old, content) == old = content

\* lines 150-151
CheckConfig ==
  /\ pc = "start"
  /\ IF PathIsFalse(EXPORT_DIR(env)) \/ ~PathExists(EXPORT_DIR(env))
     THEN pc' = "failed" /\ err' = "RuntimeError"
     ELSE pc' = "mkdir" /\ err' = err
  /\ UNCHANGED <<env, fs, today, padYear, outExists, outFiles, sel, rowIdx, created, updated,
                 writes, reads, scanned, gitLog, last, run, outBefore, prevOk, touched, edited,
                 dIn, dOut, sTree, sOut>>

\* OUT_DIR.mkdir(parents=True, exist_ok=True)
Mkdir ==
  /\ pc = "mkdir"
  /\ outExists' = TRUE
  /\ pc' = "sniff"
  /\ UNCHANGED <<env, fs, today, padYear, outFiles, err, sel, rowIdx, created, updated,
                 writes, reads, scanned, gitLog, last, run, outBefore, prevOk, touched, edited,
                 dIn, dOut, sTree, sOut>>

\* csv_path, text_col, date_col, url_col = sniff_posts_csv(EXPORT_DIR);
\* created = 0; updated = 0
Sniff ==
  /\ pc = "sniff"
  /\ scanned' = TRUE
  /\ LET r == sniff_posts_csv(fs[EXPORT_DIR(env)])
     IN IF r.error # ""
        THEN pc' = "failed" /\ err' = r.error /\ UNCHANGED <<sel, rowIdx>>
        ELSE pc' = "rows" /\ sel' = r /\ rowIdx' = 1 /\ err' = err
  /\ created' = 0 /\ updated' = 0
  /\ UNCHANGED <<env, fs, today, padYear, outExists, outFiles,
                 writes, reads, gitLog, last, run, outBefore, prevOk, touched, edited,
                 dIn, dOut, sTree, sOut>>

\* one iteration of `for row in reader`
ProcessRow ==
  /\ pc = "rows"
  /\ rowIdx <= Len(Source.rows)
  /\ rowIdx' = rowIdx + 1
  /\ \E f \in {Source} : \E row \in {f.rows[rowIdx]} :
     \E text \in {RowText(f.header, row, sel.text_col)} :
     \E date \in {IF SkipRow(text) THEN <<>> ELSE RowDate(f, row)} :
     \E url \in {IF SkipRow(text) THEN <<>> ELSE RowUrl(f, row)} :
     \E fname \in {IF SkipRow(text) THEN <<>> ELSE FileName(text, date)} :
     \E content \in {IF SkipRow(text) THEN <<>> ELSE FileContent(text, date, url)} :
        IF SkipRow(text)
        THEN /\ last' = [idx |-> rowIdx, did |-> "skip", fname |-> <<>>]
             /\ UNCHANGED <<outFiles, created, updated, writes, reads>>
        ELSE IF fname \in DOMAIN outFiles
        THEN /\ reads' = reads + 1
             /\ created' = created
             /\ IF SameContent(ReadText(outFiles[fname]), content)
                THEN /\ last' = [idx |-> rowIdx, did |-> "same", fname |-> fname]
                     /\ UNCHANGED <<outFiles, updated, writes>>
                ELSE /\ outFiles' = [outFiles EXCEPT ![fname] = WriteText(content)]
                     /\ updated' = updated + 1
                     /\ writes' = writes + 1
                     /\ last' = [idx |-> rowIdx, did |-> "update", fname |-> fname]
        ELSE /\ outFiles' = (fname :> WriteText(content)) @@ outFiles
             /\ created' = created + 1
             /\ writes' = writes + 1
             /\ last' = [idx |-> rowIdx, did |-> "create", fname |-> fname]
             /\ UNCHANGED <<updated, reads>>
  /\ UNCHANGED <<env, fs, today, padYear, outExists, pc, err, sel,
                 scanned, gitLog, run, outBefore, prevOk, touched, edited,
                 dIn, dOut, sTree, sOut>>

\* the loop ends; the three print calls
EndRows ==
  /\ pc = "rows"
  /\ rowIdx > Len(Source.rows)
  /\ pc' = "git_add"
  /\ UNCHANGED <<env, fs, today, padYear, outExists, outFiles, err, sel, rowIdx, created, updated,
                 writes, reads, scanned, gitLog, last, run, outBefore, prevOk, touched, edited,
                 dIn, dOut, sTree, sOut>>

\* the git step as it would be without the try/except around it
AfterGit_NoCatch(cmd, outcome) ==
  CASE outcome = "fail" -> "failed"
    [] cmd = "add" -> "git_status"
    [] cmd = "status" -> IF outcome = "dirty" THEN "git_commit" ELSE "done"
    [] cmd = "commit" -> "git_push"
    [] cmd = "push" -> "done"

\* Where main() goes after a git command with that outcome.  "fail" is any
\* exception of the command (no repository, git missing, non-zero exit):
\* the except clause prints a warning and main() returns.
AfterGit(cmd, outcome) ==
  CASE outcome = "fail" -> "done"
    [] cmd = "add" -> "git_status"
    [] cmd = "status" -> IF outcome = "dirty" THEN "git_commit" ELSE "done"
    [] cmd = "commit" -> "git_push"
    [] cmd = "push" -> "done"

GitStep(at, cmd, outcomes) ==
  /\ pc = at
  /\ \E o \in outcomes :
       /\ gitLog' = Append(gitLog, <<cmd, o>>)
       /\ pc' = AfterGit(cmd, o)
  /\ UNCHANGED <<env, fs, today, padYear, outExists, outFiles, err, sel, rowIdx, created, updated,
                 writes, reads, scanned, last, run, outBefore, prevOk, touched, edited,
                 dIn, dOut, sTree, sOut>>

\* run(["git", "add", str(OUT_DIR)])
GitAdd == GitStep("git_add", "add", {"ok", "fail"})

\* status = subprocess.check_output(["git", "status", "--porcelain"]).strip()
GitStatus == GitStep("git_status", "status", {"dirty", "clean", "fail"})

\* run(["git", "commit", "-m", msg])
GitCommit == GitStep("git_commit", "commit", {"ok", "fail"})

\* run(["git", "push"])
GitPush == GitStep("git_push", "push", {"ok", "fail"})

\* main() has returned or raised: the process ends
Exit ==
  /\ pc \in {"done", "failed"}
  /\ pc' = "idle"
  /\ prevOk' = (pc = "done")
  /\ touched' = {}
  /\ edited' = NoEdit
  /\ UNCHANGED <<env, fs, today, padYear, outExists, outFiles, err, sel, rowIdx, created, updated,
                 writes, reads, scanned, gitLog, last, run, outBefore,
                 dIn, dOut, sTree, sOut>>

\* after the first run, the URL cell of one row of the imported source is
\* changed (the row has the column); the runs after the second repeat it
\* with nothing changed
EditUrl ==
  /\ pc = "idle" /\ prevOk /\ run = 1 /\ run < MaxRuns /\ touched = {}
  /\ \E i \in 1..Len(Source.rows), u \in NewUrlCells :
       LET p == EXPORT_DIR(env)
           j == MaxOf({k \in 1..Len(Source.header) : Source.header[k] = sel.url_col})
       IN /\ sel.url_col # None
          /\ Len(Source.rows[i]) >= j
          /\ Source.rows[i][j] # u
          /\ fs' = [fs EXCEPT ![p][sel.path].rows[i][j] = u]
          /\ edited' = [idx |-> i, old |-> Source.rows[i]]
  /\ touched' = {"url"}
  /\ UNCHANGED <<env, today, padYear, outExists, outFiles, pc, err, sel, rowIdx, created, updated,
                 writes, reads, scanned, gitLog, last, run, outBefore, prevOk,
                 dIn, dOut, sTree, sOut>>

\* after the first run, the date changes
DayPasses ==
  /\ pc = "idle" /\ prevOk /\ run = 1 /\ run < MaxRuns /\ touched = {}
  /\ today = TODAY
  /\ today' = TOMORROW
  /\ touched' = {"day"}
  /\ UNCHANGED <<env, fs, padYear, outExists, outFiles, pc, err, sel, rowIdx, created, updated,
                 writes, reads, scanned, gitLog, last, run, outBefore, prevOk, edited,
                 dIn, dOut, sTree, sOut>>

\* the tool is run again
StartRun ==
  /\ pc = "idle" /\ run < MaxRuns
  /\ pc' = "start" /\ run' = run + 1
  /\ err' = "" /\ sel' = NotFound /\ rowIdx' = 0
  /\ created' = 0 /\ updated' = 0 /\ writes' = 0 /\ reads' = 0
  /\ scanned' = FALSE /\ gitLog' = <<>> /\ last' = NoRow
  /\ outBefore' = <<outExists, outFiles>>
  /\ UNCHANGED <<env, fs, today, padYear, outExists, outFiles, prevOk, touched, edited,
                 dIn, dOut, sTree, sOut>>

Next ==
  \/ CheckConfig \/ Mkdir \/ Sniff \/ ProcessRow \/ EndRows
  \/ GitAdd \/ GitStatus \/ GitCommit \/ GitPush
  \/ Exit \/ EditUrl \/ DayPasses \/ StartRun

Spec == Init /\ [][Next]_vars

\* parse_date is called on the argument
ParseDateCall ==
  /\ dOut = Pending
  /\ dOut' = parse_date(dIn, today, padYear)
  /\ UNCHANGED <<mainVars, today, padYear, dIn, sTree, sOut>>

NextDate == ParseDateCall

SpecDate == InitDate /\ [][NextDate]_vars

\* sniff_posts_csv is called on the directory
SniffCall ==
  /\ sOut = SniffPending
  /\ sOut' = sniff_posts_csv(sTree)
  /\ UNCHANGED <<mainVars, today, padYear, dIn, dOut, sTree>>

NextSniff == SniffCall

SpecSniff == InitSniff /\ [][NextSniff]_vars

(***************************************************************************)
(* Properties.                                                             *)
(***************************************************************************)

\* positions of main() after the loop over the rows
GitPcs == {"git_add", "git_status", "git_commit", "git_push"}

AfterRows == GitPcs \cup {"done"}

\* a cell that is absent, empty or white space only
BlankCell(c) == c = None \/ \A i \in 1..Len(c) : c[i] \in Whitespace

\* the loop body is about to handle a row
AtRow == pc = "rows" /\ rowIdx <= Len(Source.rows)

TextCell(row) == RowGet(Source.header, row, sel.text_col)

DerivedName(row) == FileName(RowText(Source.header, row, sel.text_col), RowDate(Source, row))

DerivedContent(row) ==
  FileContent(RowText(Source.header, row, sel.text_col), RowDate(Source, row), RowUrl(Source, row))

\* C1: if main() is run once and again with the source, the output directory
\* and the run date left as they were, the second run reports created = 0
\* and updated = 0 and writes no file.
C1_Idempotent ==
  (pc = "done" /\ run >= 2 /\ prevOk /\ touched = {})
    => (created = 0 /\ updated = 0 /\ writes = 0)

\* the loop body is about to handle the row whose URL was changed since the
\* run that imported it
AtEditedRow ==
  /\ AtRow
  /\ touched = {"url"}
  /\ edited.idx = rowIdx
  /\ ~BlankCell(RowGet(Source.header, edited.old, sel.text_col))

\* C2 as stated: the row whose URL alone was changed keeps its fingerprint
\* and file name, and its file is left as it is: not written, no counter
\* incremented.
C2_UrlEditLeavesFile ==
  [][AtEditedRow =>
       /\ DerivedName(Source.rows[rowIdx]) = DerivedName(edited.old)
       /\ outFiles' = outFiles /\ created' = created /\ updated' = updated]_vars

\* C2 as amended: the row whose URL alone was changed keeps its fingerprint
\* and file name, its file is not created anew and no other file is touched;
\* but the file is compared by its whole content, which holds the URL: when
\* the file holds what the row gave before and the trimmed URL differs, it
\* is overwritten with the new content and updated is incremented by one.
C2_UrlEditRewritesFile ==
  [][AtEditedRow =>
       \E new \in {Source.rows[rowIdx]} : \E name \in {DerivedName(new)} :
       \E content \in {DerivedContent(new)} :
         /\ name = DerivedName(edited.old)
         /\ Prefix(sha1(strip(TextCell(new))), DIGEST_LEN)
              = Prefix(sha1(strip(TextCell(edited.old))), DIGEST_LEN)
         /\ name \in DOMAIN outFiles
         /\ DOMAIN outFiles' = DOMAIN outFiles
         /\ created' = created
         /\ (outFiles[name] = DerivedContent(edited.old) /\ RowUrl(Source, new) # RowUrl(Source, edited.old))
              => (outFiles'[name] = content /\ updated' = updated + 1)
         /\ outFiles' \in {outFiles, [outFiles EXCEPT ![name] = content]}]_vars

\* the edited row was handled and its file was overwritten
C2_Witness ==
  /\ pc = "rows" /\ touched = {"url"}
  /\ last.idx = edited.idx /\ last.did = "update"
  /\ updated >= 1 /\ created = 0

\* the configured directory is unset, empty or does not exist
ConfigInvalid == env = None \/ env = <<>> \/ env \notin DOMAIN fs

\* C3: with LINKEDIN_EXPORT_DIR unset, empty or naming no existing path,
\* main() ends in the configuration error before any output: the output
\* directory is not created, nothing is scanned, no file is written and no
\* git command is invoked.
C3_ConfigErrorBeforeOutput ==
  (run = 1 /\ ConfigInvalid /\ pc \notin {"start", "off"})
    => /\ pc \in {"failed", "idle"}
       /\ err = "RuntimeError"
       /\ outExists = outBefore[1] /\ outFiles = outBefore[2]
       /\ ~scanned /\ writes = 0 /\ gitLog = <<>>

\* kw occurs in name when case is ignored
KeywordIn(name, kw) ==
  \E i \in 0..(Len(name) - Len(kw)) : \A j \in 1..Len(kw) : LowerChar(name[i + j]) = kw[j]

HasBlockedKeyword(name) == \E k \in 1..Len(BLOCKED_FILE_HINTS) : KeywordIn(name, BLOCKED_FILE_HINTS[k])

HasAllowedKeyword(name) == \E k \in 1..Len(ALLOWED_FILE_HINTS) : KeywordIn(name, ALLOWED_FILE_HINTS[k])

SniffReturned == sOut # SniffPending /\ sOut.error = ""

HasTextCol(f) == ResolveCol(f.header, TEXT_COL_CANDIDATES) # None

HasDateCol(f) == ResolveCol(f.header, DATE_COL_CANDIDATES) # None

HasUrlCol(f) == ResolveCol(f.header, URL_COL_CANDIDATES) # None

\* the rows among the first n whose text column is not empty after trimming
NonEmptyAmong(f, n) ==
  Eval(ResolveCol(f.header, TEXT_COL_CANDIDATES), LAMBDA col :
    Cardinality({i \in 1..Len(f.rows) : i <= n /\ ~BlankCell(RowGet(f.header, f.rows[i], col))}))

\* what the claims ask of the file at path p: whether it passes the file-name
\* filters and resolves a text column, whether it resolves a date and a URL
\* column, its rows with text among the sampled rows and among all rows,
\* and whether it is read without error
Facts(p) ==
  Eval(sTree[p], LAMBDA f :
    [path |-> p,
     blocked |-> HasBlockedKeyword(f.name),
     candidate |-> MatchesGlob(f.name) /\ ~HasBlockedKeyword(f.name) /\ HasAllowedKeyword(f.name) /\ HasTextCol(f),
     date |-> HasDateCol(f),
     url |-> HasUrlCol(f),
     sampled |-> NonEmptyAmong(f, SAMPLE_CAP),
     total |-> NonEmptyAmong(f, Len(f.rows)),
     readable |-> ~f.readError])

AllFacts == {Facts(p) : p \in 1..Len(sTree)}

\* the score the spec gives a file
SpecScore(x) == x.sampled + (IF x.date THEN 10 ELSE 0) + (IF x.url THEN 5 ELSE 0)

\* C4: sniff_posts_csv never returns a file whose name contains a blocked
\* keyword, whatever else is true of the file.
C4_NeverBlocked == SniffReturned => ~HasBlockedKeyword(sTree[sOut.path].name)

\* a file was returned although a file with a blocked keyword in its name had
\* an allowed keyword too, a text column and a higher score
C4_Witness ==
  /\ SniffReturned
  /\ \E facts \in {AllFacts} : \E x, r \in facts :
       /\ r.path = sOut.path
       /\ x.blocked /\ HasAllowedKeyword(sTree[x.path].name) /\ MatchesGlob(sTree[x.path].name)
       /\ x.readable /\ HasTextCol(sTree[x.path])
       /\ SpecScore(x) > SpecScore(r)

\* x and y are two candidates, read without error, alike in their date and
\* URL columns
Comparable(x, y) ==
  /\ x.path # y.path
  /\ x.candidate /\ y.candidate
  /\ x.readable /\ y.readable
  /\ x.date = y.date /\ x.url = y.url

\* i is chosen over j: j is not returned, and i is when they are the only
\* files
Preferred(i, j) ==
  /\ sOut.path # j
  /\ Len(sTree) = 2 => (sOut.error = "" /\ sOut.path = i)

\* C5 as stated: of two candidates alike in their date and URL columns
\* (files that are read without error), the one with strictly more rows with
\* text is selected, however many rows the files have.
C5_MoreRowsWins ==
  sOut # SniffPending =>
    \E facts \in {AllFacts} : \A x, y \in facts :
      (Comparable(x, y) /\ x.total > y.total) => Preferred(x.path, y.path)

\* C5 as amended: of two candidates alike in their date and URL columns
\* (files that are read without error), the one with strictly more rows with
\* text among its first SAMPLE_CAP rows is selected, whatever the order of
\* enumeration; rows after the first SAMPLE_CAP do not count.
C5_MoreSampledRowsWins ==
  sOut # SniffPending =>
    \E facts \in {AllFacts} : \A x, y \in facts :
      (Comparable(x, y) /\ x.sampled > y.sampled) => Preferred(x.path, y.path)

\* the file with more sampled rows with text was returned although the other
\* candidate comes first in the enumeration
C5_Witness ==
  /\ SniffReturned
  /\ \E facts \in {AllFacts} : \E x, y \in facts :
       /\ Comparable(x, y)
       /\ x.sampled > y.sampled /\ y.sampled >= 1
       /\ y.path < x.path /\ sOut.path = x.path

\* the survivors as C9 lists them
Survives(x) == x.candidate /\ x.sampled >= 1

\* what C9 says of the result when the files in S are the survivors
SelectedFrom(S) ==
  IF S = {} THEN sOut.error # ""
  ELSE /\ sOut.error = ""
       /\ \E r \in S :
            /\ r.path = sOut.path
            /\ \A q \in S : SpecScore(q) <= SpecScore(r)
            /\ \A q \in S : SpecScore(q) = SpecScore(r) => r.path <= q.path

\* C9 as stated: the survivors are the files with no blocked keyword, an
\* allowed keyword, a text column and a sampled row with text; the result is
\* the first survivor of maximal score, and an error when there is none.
C9_Selection ==
  sOut # SniffPending =>
    \E facts \in {AllFacts} : SelectedFrom({x \in facts : Survives(x)})

\* C9 as amended: the survivors are moreover read without error.
C9_SelectionOfReadable ==
  sOut # SniffPending =>
    \E facts \in {AllFacts} : SelectedFrom({x \in facts : Survives(x) /\ x.readable})

\* two survivors tie at the highest score and the first was returned
C9_Witness ==
  /\ SniffReturned
  /\ \E facts \in {AllFacts} : \E r, q \in facts :
       /\ r.path = sOut.path /\ q.path > r.path
       /\ Survives(q) /\ q.readable
       /\ SpecScore(q) = SpecScore(r)

\* C6: handling a row whose text is absent, empty or white space only leaves
\* the output directory and the counters as they are, and reads no file.
C6_BlankRowNoEffect ==
  [][(AtRow /\ BlankCell(TextCell(Source.rows[rowIdx])))
       => /\ outFiles' = outFiles /\ outExists' = outExists
          /\ created' = created /\ updated' = updated
          /\ writes' = writes /\ reads' = reads]_vars

\* a row without text was skipped after a row with text was written
C6_Witness ==
  /\ pc = "rows" /\ last.did = "skip" /\ last.idx = 2
  /\ BlankCell(TextCell(Source.rows[last.idx]))
  /\ writes = 1

GitOrder == <<"add", "status", "commit", "push">>

\* C7: the git commands run after all rows, in the order add, status,
\* commit, push; commit and push only after status reported changes, push
\* only after commit succeeded; no outcome of theirs makes main() fail or
\* changes what the conversion did.
C7_GitStep ==
  /\ [](gitLog # <<>> =>
          /\ pc \in AfterRows \cup {"idle"}
          /\ err = ""
          /\ rowIdx = Len(Source.rows) + 1
          /\ Len(gitLog) <= 4
          /\ \A k \in 1..Len(gitLog) : gitLog[k][1] = GitOrder[k]
          /\ Len(gitLog) >= 3 => gitLog[2][2] = "dirty"
          /\ Len(gitLog) >= 4 => gitLog[3][2] = "ok"
          /\ gitLog[Len(gitLog)][2] = "fail" => pc \in {"done", "idle"})
  /\ [][(pc \in GitPcs) =>
          (/\ pc' \in AfterRows
           /\ err' = "" /\ outFiles' = outFiles
           /\ created' = created /\ updated' = updated)]_vars

\* the push failed after a commit of new files, and main() returned normally
C7_Witness ==
  /\ pc = "done" /\ err = ""
  /\ Len(gitLog) = 4 /\ gitLog[4] = <<"push", "fail">>
  /\ created >= 1

\* the rendering YYYY-MM-DD of a date
Canonical(ymd) ==
  ZeroPad(IntToStr(ymd[1]), 4) \o <<"-">> \o ZeroPad(IntToStr(ymd[2]), 2) \o <<"-">> \o ZeroPad(IntToStr(ymd[3]), 2)

\* what C8 says parse_date returns for the stripped value s
DateClaimed(s) ==
  IF \E k \in 1..Len(DATE_FORMATS) : strptime(s, DATE_FORMATS[k]) # ValueError
  THEN Canonical(strptime(s, DATE_FORMATS[MinOf({k \in 1..Len(DATE_FORMATS) : strptime(s, DATE_FORMATS[k]) # ValueError})]))
  ELSE IF MatchesIsoPrefix(s) THEN SubSeq(s, 1, 10)
  ELSE today

\* C8: parse_date returns the canonical YYYY-MM-DD rendering of the first of
\* the five formats that matches (so "05/03/2024" is the fifth of March),
\* else the leading ten characters of a value that begins like a date, else
\* the run date; it never raises.
C8_ParseDate ==
  dOut # Pending =>
    /\ dOut = DateClaimed(strip(OrEmpty(dIn)))
    /\ dIn \in {<<"0","5","/","0","3","/","2","0","2","4">>, <<"2","0","2","4","-","0","3","-","0","5">>, <<"2","0","2","4","-","0","3","-","0","5"," ","1","0",":","0","0",":","0","0">>} => dOut = <<"2","0","2","4","-","0","3","-","0","5">>
    /\ dIn \in {<<"n","o","t","-","a","-","d","a","t","e">>, <<>>, None} => dOut = today

\* what the loop body must do with a row with text, by C10
LifecycleStep ==
  \E name \in {DerivedName(Source.rows[rowIdx])} : \E content \in {DerivedContent(Source.rows[rowIdx])} :
    IF name \notin DOMAIN outFiles
    THEN /\ outFiles' = (name :> content) @@ outFiles
         /\ created' = created + 1 /\ updated' = updated /\ writes' = writes + 1
    ELSE IF outFiles[name] = content
    THEN /\ outFiles' = outFiles
         /\ created' = created /\ updated' = updated /\ writes' = writes
    ELSE /\ outFiles' = [outFiles EXCEPT ![name] = content]
         /\ created' = created /\ updated' = updated + 1 /\ writes' = writes + 1

\* C10: a row with text creates its file when absent (created + 1), leaves it
\* when it holds the same content (no write, no count), overwrites it when
\* it holds other content (updated + 1); so after the rows no earlier file is
\* gone, every row with text has its file, created counts the files that are
\* new, and created + updated counts the writes.
C10_Lifecycle ==
  /\ [][(AtRow /\ ~BlankCell(TextCell(Source.rows[rowIdx]))) => LifecycleStep]_vars
  /\ [](pc \in AfterRows =>
          /\ DOMAIN outBefore[2] \subseteq DOMAIN outFiles
          /\ \A i \in 1..Len(Source.rows) :
               ~BlankCell(TextCell(Source.rows[i])) => DerivedName(Source.rows[i]) \in DOMAIN outFiles
          /\ created = Cardinality(DOMAIN outFiles \ DOMAIN outBefore[2])
          /\ created + updated = writes)

====
